---- MODULE Spec2Model ----
(***************************************************************************)
(* MBP University: document ingestion (ingest.py) and retrieval            *)
(* (retriever.py).                                                         *)
(*                                                                         *)
(* The specifications share the module's variables:                        *)
(*   SpecSplit   the loop of _split_large_chunk, one iteration per step    *)
(*   SpecParse   parse_docx applied to a document body                     *)
(*   SpecFormat  format_sources_for_display applied to a result list       *)
(*   Spec        ingest_all, build_index / build_vector_store and search   *)
(*   SpecUnits   parse_docx, _split_large_chunk and parse_xlsx in sequence *)
(*                                                                         *)
(* Representation of texts.  In the chunk splitter and in the pipeline a   *)
(* text is the sequence of the word counts of its sentences (the pieces    *)
(* re.split cuts it into); its word count is their sum.  In the document   *)
(* parser a text is a sequence of characters.                              *)
(***************************************************************************)
EXTENDS Integers, Sequences, FiniteSets, TLC

VARIABLES
    \* _split_large_chunk
    chunk, max_tokens, overlap_tokens, sentences, sent_i,
    sub_chunks, emitted, current_sentences, current_tokens, split_pc

VARIABLES
    \* parse_docx
    body, sections, parse_pc

VARIABLES
    \* format_sources_for_display
    results, lines, fmt_pc

VARIABLES
    \* ingest_all and build_index
    directory, docx_files, xlsx_files, file_i, all_chunks, all_filenames, ingest_pc,
    index, metadata, doc_filenames

VARIABLES
    \* search
    query, top_k, s_index, s_metadata, hits, search_results, raised, search_pc

splitVars == <<chunk, max_tokens, overlap_tokens, sentences, sent_i,
               sub_chunks, emitted, current_sentences, current_tokens, split_pc>>

parseVars == <<body, sections, parse_pc>>

formatVars == <<results, lines, fmt_pc>>

ingestVars == <<directory, docx_files, xlsx_files, file_i, all_chunks, all_filenames,
                ingest_pc>>

indexVars == <<index, metadata, doc_filenames>>

VARIABLES
    \* parse_docx, _split_large_chunk and parse_xlsx in sequence, as in ingest_all
    u_body, u_rows, u_max_tokens, u_overlap_tokens, u_sections, u_sub_chunks, u_faq,
    u_pc

searchVars == <<query, top_k, s_index, s_metadata, hits, search_results, raised,
                search_pc>>

unitsVars == <<u_body, u_rows, u_max_tokens, u_overlap_tokens, u_sections,
               u_sub_chunks, u_faq, u_pc>>

vars == <<splitVars, parseVars, formatVars, ingestVars, indexVars, searchVars,
          unitsVars>>

(***************************************************************************)
(* Bounds of the model                                                     *)
(***************************************************************************)
MaxSentences == 4
MaxWords == 3
MaxMaxTokens == 4
MaxOverlapTokens == 2
MaxBody == 3
MaxResults == 3
MaxCorpus == 3
MaxTopK == 3
MaxFiles == 2
MaxUnitsBody == 2
MaxUnitsRows == 2
SmallMaxTokens == 2
SmallOverlapTokens == 1

(***************************************************************************)
(* Helpers                                                                 *)
(***************************************************************************)
Min(a, b) == IF a <= b THEN a ELSE b

Max(a, b) == IF a >= b THEN a ELSE b

RECURSIVE SumSeq(_)
SumSeq(s) == IF s = <<>> THEN 0 ELSE Head(s) + SumSeq(Tail(s))

SeqsUpTo(S, n) == UNION {[1..k -> S] : k \in 0..n}

\* len(text.split()) of a text given by its sentences' word counts
WordCount(text) == SumSeq(text)

\* _approx_token_count on a text of `words` words: int(words * 1.3)
ApproxTokenCount(words) == (words * 13) \div 10


(***************************************************************************)
(* Character-level texts                                                   *)
(***************************************************************************)
IsSpace(ch) == ch \in {" ", "\n"}

UpperChars == {"A", "B", "I"}


\* str.lstrip / str.rstrip / str.strip
RECURSIVE LStrip(_)
LStrip(s) == IF s # <<>> /\ IsSpace(Head(s)) THEN LStrip(Tail(s)) ELSE s

RECURSIVE RStripChars(_, _)
RStripChars(s, chars) ==
    IF s # <<>> /\ s[Len(s)] \in chars THEN RStripChars(SubSeq(s, 1, Len(s) - 1), chars)
    ELSE s

Strip(s) == RStripChars(LStrip(s), {" ", "\n"})

\* sep.join(parts)
RECURSIVE Join(_, _)
Join(parts, sep) ==
    IF parts = <<>> THEN <<>>
    ELSE IF Len(parts) = 1 THEN parts[1]
    ELSE parts[1] \o sep \o Join(Tail(parts), sep)

\* len(s.split()): the number of maximal runs of non-space characters
RECURSIVE WordsIn(_)
WordsIn(s) ==
    IF s = <<>> THEN 0
    ELSE IF IsSpace(Head(s)) THEN WordsIn(Tail(s))
    ELSE IF Len(s) = 1 \/ IsSpace(s[2]) THEN 1 + WordsIn(Tail(s))
    ELSE WordsIn(Tail(s))

\* sum(1 for c in s if c in chars)
CountIn(s, chars) == Len(SelectSeq(s, LAMBDA ch : ch \in chars))

(***************************************************************************)
(* _split_large_chunk                                                      *)
(***************************************************************************)
\* a section label is a sequence of characters; <<>> is the empty or absent label
NoSection == <<>>

\* "Introduction", the default label of parse_docx
Introduction == <<"I", "n", "t", "r", "o", "d", "u", "c", "t", "i", "o", "n">>

\* re.split(r"(?<=[.!?])\s+", text): the sentences, each with its position
ReSplit(text) == [i \in 1..Len(text) |-> [pos |-> i, words |-> text[i]]]

\* the words of section_prefix = "## <section>\n", or of "" without a label
SectionPrefixWords(c) == IF c.section # NoSection THEN 1 + WordsIn(c.section) ELSE 0

\* section_prefix + " ".join(current_sentences), as a text
SubText(c, cs) ==
    IF cs = <<>> THEN IF SectionPrefixWords(c) = 0 THEN <<>> ELSE <<SectionPrefixWords(c)>>
    ELSE [i \in 1..Len(cs) |->
             IF i = 1 THEN SectionPrefixWords(c) + cs[1].words ELSE cs[i].words]

\* a file name
DocxName == <<"a", ".", "d", "o", "c", "x">>

\* estimated tokens of the sentences of a list
RECURSIVE SentTokens(_)
SentTokens(cs) ==
    IF cs = <<>> THEN 0 ELSE ApproxTokenCount(Head(cs).words) + SentTokens(Tail(cs))

\* the "Keep overlap" loop: how many sentences of cs[1..k], taken from the
\* end, are kept while their cumulative estimate stays <= overlap
RECURSIVE OverlapLenNoLimit(_, _, _, _)
OverlapLenNoLimit(cs, k, count, overlap) ==
    IF k = 0 THEN 0 ELSE 1 + OverlapLenNoLimit(cs, k - 1, count, overlap)

RECURSIVE OverlapLen(_, _, _, _)
OverlapLen(cs, k, count, overlap) ==
    IF k = 0 THEN 0
    ELSE LET t == ApproxTokenCount(cs[k].words)
         IN  IF count + t > overlap THEN 0
             ELSE 1 + OverlapLen(cs, k - 1, count + t, overlap)

\* overlap_sents after the "Keep overlap" loop
OverlapSentsReversed(cs, overlap) ==
    LET n == OverlapLen(cs, Len(cs), 0, overlap)
    IN  [i \in 1..n |-> cs[Len(cs) - i + 1]]

OverlapSents(cs, overlap) ==
    SubSeq(cs, Len(cs) - OverlapLen(cs, Len(cs), 0, overlap) + 1, Len(cs))

\* one iteration of `for sent in sentences` on the loop state st
SplitBodyNeverEmits(c, maxTok, overlap, st, sent) ==
    [sub_chunks |-> st.sub_chunks,
     emitted |-> st.emitted,
     current_sentences |-> Append(st.current_sentences, sent),
     current_tokens |-> st.current_tokens + ApproxTokenCount(sent.words)]

SplitBody(c, maxTok, overlap, st, sent) ==
    LET sent_tokens == ApproxTokenCount(sent.words)
        emit == st.current_tokens + sent_tokens > maxTok /\ st.current_sentences # <<>>
        overlap_sents == OverlapSents(st.current_sentences, overlap)
        kept == IF emit THEN overlap_sents ELSE st.current_sentences
        keptTok == IF emit THEN SentTokens(overlap_sents) ELSE st.current_tokens
    IN  [sub_chunks |->
            IF emit
            THEN Append(st.sub_chunks,
                        [c EXCEPT !.text = SubText(c, st.current_sentences)])
            ELSE st.sub_chunks,
         emitted |->
            IF emit THEN Append(st.emitted, st.current_sentences) ELSE st.emitted,
         current_sentences |-> Append(kept, sent),
         current_tokens |-> keptTok + sent_tokens]

\* the tail of the function: the final sub-chunk
SplitFinalForgotten(c, st) == st

SplitFinal(c, st) ==
    IF st.current_sentences # <<>>
    THEN [sub_chunks |-> Append(st.sub_chunks,
                                [c EXCEPT !.text = SubText(c, st.current_sentences)]),
          emitted |-> Append(st.emitted, st.current_sentences),
          current_sentences |-> st.current_sentences,
          current_tokens |-> st.current_tokens]
    ELSE st

SplitStart == [sub_chunks |-> <<>>, emitted |-> <<>>,
               current_sentences |-> <<>>, current_tokens |-> 0]

RECURSIVE SplitLoop(_, _, _, _, _)
SplitLoop(c, maxTok, overlap, st, sents) ==
    IF sents = <<>> THEN st
    ELSE SplitLoop(c, maxTok, overlap, SplitBody(c, maxTok, overlap, st, Head(sents)),
                   Tail(sents))

\* _split_large_chunk(chunk, max_tokens, overlap_tokens)
SplitLargeChunk(c, maxTok, overlap) ==
    IF ApproxTokenCount(WordCount(c.text)) <= maxTok THEN <<c>>
    ELSE SplitFinal(c, SplitLoop(c, maxTok, overlap, SplitStart, ReSplit(c.text))).sub_chunks

\* the loop state held in the variables
SplitState == [sub_chunks |-> sub_chunks, emitted |-> emitted,
               current_sentences |-> current_sentences,
               current_tokens |-> current_tokens]

SetSplitState(st) ==
    /\ sub_chunks' = st.sub_chunks
    /\ emitted' = st.emitted
    /\ current_sentences' = st.current_sentences
    /\ current_tokens' = st.current_tokens

SplitTexts == SeqsUpTo(1..MaxWords, MaxSentences) \ {<<>>}

SplitSections == {NoSection, Introduction}


SplitInit ==
    /\ chunk \in [text : SplitTexts, section : SplitSections,
                  source : {DocxName}, type : {"sop"}]
    /\ max_tokens \in 1..MaxMaxTokens
    /\ overlap_tokens \in 0..MaxOverlapTokens
    /\ sentences = <<>>
    /\ sent_i = 0
    /\ sub_chunks = <<>>
    /\ emitted = <<>>
    /\ current_sentences = <<>>
    /\ current_tokens = 0
    /\ split_pc = "start"

\* lines 237-239: the section fits, it is returned unchanged
SplitReturnUnchanged ==
    /\ split_pc = "start"
    /\ ApproxTokenCount(WordCount(chunk.text)) <= max_tokens
    /\ sub_chunks' = <<chunk>>
    /\ split_pc' = "done"
    /\ UNCHANGED <<chunk, max_tokens, overlap_tokens, sentences, sent_i,
                   emitted, current_sentences, current_tokens>>
    /\ UNCHANGED <<parseVars, formatVars, ingestVars, indexVars, searchVars, unitsVars>>

\* lines 241-246: the text is cut into sentences
SplitEnter ==
    /\ split_pc = "start"
    /\ ApproxTokenCount(WordCount(chunk.text)) > max_tokens
    /\ sentences' = ReSplit(chunk.text)
    /\ sent_i' = 1
    /\ SetSplitState(SplitStart)
    /\ split_pc' = "loop"
    /\ UNCHANGED <<chunk, max_tokens, overlap_tokens>>
    /\ UNCHANGED <<parseVars, formatVars, ingestVars, indexVars, searchVars, unitsVars>>

\* lines 248-267: one iteration of the loop
SplitIterate ==
    /\ split_pc = "loop"
    /\ sent_i <= Len(sentences)
    /\ SetSplitState(SplitBody(chunk, max_tokens, overlap_tokens, SplitState,
                               sentences[sent_i]))
    /\ sent_i' = sent_i + 1
    /\ UNCHANGED <<chunk, max_tokens, overlap_tokens, sentences, split_pc>>
    /\ UNCHANGED <<parseVars, formatVars, ingestVars, indexVars, searchVars, unitsVars>>

\* lines 269-273: the remaining sentences are emitted, the list is returned
SplitFinish ==
    /\ split_pc = "loop"
    /\ sent_i > Len(sentences)
    /\ SetSplitState(SplitFinal(chunk, SplitState))
    /\ split_pc' = "done"
    /\ UNCHANGED <<chunk, max_tokens, overlap_tokens, sentences, sent_i>>
    /\ UNCHANGED <<parseVars, formatVars, ingestVars, indexVars, searchVars, unitsVars>>

\* the splitter at rest, in the specifications of the other components
SplitIdle ==
    /\ chunk = [text |-> <<1>>, section |-> NoSection, source |-> DocxName, type |-> "sop"]
    /\ max_tokens = 1
    /\ overlap_tokens = 0
    /\ sentences = <<>>
    /\ sent_i = 0
    /\ sub_chunks = <<>>
    /\ emitted = <<>>
    /\ current_sentences = <<>>
    /\ current_tokens = 0
    /\ split_pc = "idle"

(***************************************************************************)
(* parse_docx                                                              *)
(***************************************************************************)
HeadingMaxLen == 120

SubHeadingMaxLen == 80

\* A body element.  kind "p": a paragraph with its text; bold says that it
\* has runs with text and all of them are bold; label says that its text is
\* one of the generic labels, starts with "owner:" or "timing:", or holds a
\* dialogue phrase.  kind "tbl": a table with its rows of cells.  kind
\* "sectPr": any other child of the body.
Para(text, bold, label) ==
    [kind |-> "p", text |-> text, bold |-> bold, label |-> label, rows |-> <<>>]

Table(rows) ==
    [kind |-> "tbl", text |-> <<>>, bold |-> FALSE, label |-> FALSE, rows |-> rows]

OtherChild ==
    [kind |-> "sectPr", text |-> <<>>, bold |-> FALSE, label |-> FALSE, rows |-> <<>>]

\* _is_section_heading(paragraph)
IsSectionHeading(p) ==
    LET text == Strip(p.text)
        clean == RStripChars(text, {":", "-", " "})
        nonSpace == Len(text) - CountIn(text, {" "})
        upper == CountIn(text, UpperChars)
    IN  IF text = <<>> \/ Len(text) > HeadingMaxLen THEN FALSE
        ELSE IF ~p.bold THEN FALSE
        ELSE IF p.label THEN FALSE
        ELSE IF 10 * upper > 6 * Max(nonSpace, 1) THEN TRUE
        ELSE IF Len(text) < SubHeadingMaxLen /\ WordsIn(clean) >= 2 THEN TRUE
        ELSE FALSE

\* _extract_table_text(table)
ExtractTableText(t) ==
    Join([r \in 1..Len(t.rows) |->
             Join([c \in 1..Len(t.rows[r]) |-> Strip(t.rows[r][c])], <<" ", "|", " ">>)],
         <<"\n">>)

\* _flush(): the buffer becomes a section unless it is empty after trimming
FlushDropsNothing(st, filename) ==
    [st EXCEPT !.sections =
        Append(@, [text |-> Strip(Join(st.current_text_parts, <<"\n">>)),
                   section |-> st.current_section,
                   source |-> filename, type |-> "sop"])]

Flush(st, filename) ==
    LET text == Strip(Join(st.current_text_parts, <<"\n">>))
    IN  IF text # <<>>
        THEN [st EXCEPT !.sections =
                 Append(@, [text |-> text, section |-> st.current_section,
                            source |-> filename, type |-> "sop"])]
        ELSE st

\* one iteration of `for child in body`
ParseChildNoFlush(st, child, filename) ==
    IF child.kind = "p"
    THEN IF IsSectionHeading(child)
         THEN [st EXCEPT
                  !.current_section = Strip(child.text),
                  !.current_text_parts = <<<<"#", "#", " ">> \o Strip(child.text)>>]
         ELSE IF Strip(child.text) # <<>>
         THEN [st EXCEPT !.current_text_parts = Append(@, Strip(child.text))]
         ELSE st
    ELSE IF child.kind = "tbl"
    THEN IF Strip(ExtractTableText(child)) # <<>>
         THEN [st EXCEPT !.current_text_parts = Append(@, ExtractTableText(child))]
         ELSE st
    ELSE st

ParseChild(st, child, filename) ==
    IF child.kind = "p"
    THEN IF IsSectionHeading(child)
         THEN [Flush(st, filename) EXCEPT
                  !.current_section = Strip(child.text),
                  !.current_text_parts = <<<<"#", "#", " ">> \o Strip(child.text)>>]
         ELSE IF Strip(child.text) # <<>>
         THEN [st EXCEPT !.current_text_parts = Append(@, Strip(child.text))]
         ELSE st
    ELSE IF child.kind = "tbl"
    THEN IF Strip(ExtractTableText(child)) # <<>>
         THEN [st EXCEPT !.current_text_parts = Append(@, ExtractTableText(child))]
         ELSE st
    ELSE st

RECURSIVE ParseLoop(_, _, _)
ParseLoop(st, children, filename) ==
    IF children = <<>> THEN st
    ELSE ParseLoop(ParseChild(st, Head(children), filename), Tail(children), filename)

\* parse_docx(filepath) on a document with the given body
ParseDocx(children, filename) ==
    Flush(ParseLoop([sections |-> <<>>, current_section |-> Introduction,
                     current_text_parts |-> <<>>],
                    children, filename),
          filename).sections

BodyElements ==
    { Para(<<>>, FALSE, FALSE),
      Para(<<" ">>, FALSE, FALSE),
      Para(<<"a">>, FALSE, FALSE),
      Para(<<" ", "a">>, FALSE, FALSE),
      Para(<<"A">>, FALSE, FALSE),
      Para(<<"A">>, TRUE, FALSE),
      Para(<<"a">>, TRUE, FALSE),
      Para(<<"a", " ", "b">>, TRUE, FALSE),
      Para(<<"A">>, TRUE, TRUE),
      Table(<<<<<<>>>>>>),
      Table(<<<<<<>>, <<>>>>>>),
      Table(<<<<<<>>, <<"a">>>>>>),
      Table(<<<<<<"a">>>>, <<<<"b">>>>>>),
      OtherChild }

ParseInit ==
    /\ body \in SeqsUpTo(BodyElements, MaxBody)
    /\ sections = <<>>
    /\ parse_pc = "start"

ParseIdle ==
    /\ body = <<>>
    /\ sections = <<>>
    /\ parse_pc = "idle"

\* lines 103-154: the document is parsed
ParseDocxCall ==
    /\ parse_pc = "start"
    /\ sections' = ParseDocx(body, DocxName)
    /\ parse_pc' = "done"
    /\ UNCHANGED body
    /\ UNCHANGED <<splitVars, formatVars, ingestVars, indexVars, searchVars, unitsVars>>

ParseNext == ParseDocxCall
(***************************************************************************)
(* format_sources_for_display                                              *)
(***************************************************************************)
\* a result: a retrieval unit's citation fields (texts as character sequences)
Result(type, source, section, topic, question, link) ==
    [type |-> type, source |-> source, section |-> section, topic |-> topic,
     question |-> question, resource_link |-> link]

\* key = f"faq-{question}" or f"sop-{source}-{section}"
SourceKey(r) ==
    IF r.type = "faq" THEN <<"f", "a", "q", "-">> \o r.question
    ELSE <<"s", "o", "p", "-">> \o r.source \o <<"-">> \o r.section

\* the lines one result is rendered as: the citation line and, for a FAQ row
\* with a resource link, the line of the link
SourceLines(r) ==
    IF r.type = "faq"
    THEN <<[kind |-> "faq", a |-> r.topic, b |-> r.question]>>
         \o (IF r.resource_link # <<>>
             THEN <<[kind |-> "link", a |-> r.resource_link, b |-> <<>>]>>
             ELSE <<>>)
    ELSE <<[kind |-> "sop", a |-> r.source, b |-> r.section]>>

\* "No sources found."
NoSourcesFound == <<[kind |-> "none", a |-> <<>>, b |-> <<>>]>>

\* the loop `for r in results` on (lines, seen)
RECURSIVE FormatLoop(_, _, _)
FormatLoop(rs, ls, seen) ==
    IF rs = <<>> THEN ls
    ELSE LET r == Head(rs)
             key == SourceKey(r)
         IN  IF key \in seen THEN FormatLoop(Tail(rs), ls, seen)
             ELSE FormatLoop(Tail(rs), ls \o SourceLines(r), seen \cup {key})

\* format_sources_for_display(results), as the list of its lines
FormatSourcesForDisplay(rs) ==
    IF rs = <<>> THEN NoSourcesFound ELSE FormatLoop(rs, <<>>, {})

SopSources == {<<"a">>, <<"a", "-", "b">>}

SopSectionLabels == {<<"c">>, <<"b", "-", "c">>}

FaqQuestions == {<<"q">>, <<"r">>}

ResourceLinks == {<<>>, <<"l">>}

FormatInputs ==
    {Result("sop", src, sec, <<>>, <<>>, <<>>) :
        src \in SopSources, sec \in SopSectionLabels}
    \cup {Result("faq", <<"f">>, <<"F", "A", "Q">>, <<"t">>, q, l) :
        q \in FaqQuestions, l \in ResourceLinks}

FormatInit ==
    /\ results \in SeqsUpTo(FormatInputs, MaxResults)
    /\ lines = <<>>
    /\ fmt_pc = "start"

FormatIdle ==
    /\ results = <<>>
    /\ lines = <<>>
    /\ fmt_pc = "idle"

\* lines 67-98: the source list is rendered
FormatSourcesCall ==
    /\ fmt_pc = "start"
    /\ lines' = FormatSourcesForDisplay(results)
    /\ fmt_pc' = "done"
    /\ UNCHANGED results
    /\ UNCHANGED <<splitVars, parseVars, ingestVars, indexVars, searchVars, unitsVars>>

FormatNext == FormatSourcesCall

(***************************************************************************)
(* Retrieval units, the embedding provider and the vector index            *)
(***************************************************************************)
\* a retrieval unit: the dict of parse_docx (type "sop") or parse_xlsx ("faq")
Unit(text, source, type, section, topic, question, link) ==
    [text |-> text, source |-> source, type |-> type, section |-> section,
     topic |-> topic, question |-> question, resource_link |-> link]

\* chunk.copy() with chunk["score"] = float(score)
WithScore(u, score) ==
    [text |-> u.text, source |-> u.source, type |-> u.type, section |-> u.section,
     topic |-> u.topic, question |-> u.question, resource_link |-> u.resource_link,
     score |-> score]

\* model.encode(texts, normalize_embeddings=True): a deterministic map from a
\* text to a vector of unit length
Encode(text) ==
    LET h == WordCount(text) % 3
    IN  IF h = 0 THEN <<1, 0>> ELSE IF h = 1 THEN <<0, 1>> ELSE <<-1, 0>>

\* the inner product of IndexFlatIP
InnerProduct(u, v) == u[1] * v[1] + u[2] * v[2]

\* index is None
NoneIndex == [present |-> FALSE, vectors |-> <<>>]

\* faiss.IndexFlatIP(EMBEDDING_DIMENSION) with no vector added
EmptyIndex == [present |-> TRUE, vectors |-> <<>>]

\* index.ntotal
NTotal(ix) == Len(ix.vectors)

\* build_vector_store(chunks, model): row i holds the embedding of chunks[i]
BuildVectorStoreReversed(chunks) ==
    [present |-> TRUE,
     vectors |-> [i \in 1..Len(chunks) |-> Encode(chunks[Len(chunks) + 1 - i].text)]]

BuildVectorStore(chunks) ==
    [present |-> TRUE, vectors |-> [i \in 1..Len(chunks) |-> Encode(chunks[i].text)]]

\* the score faiss reports beside the row id -1
NoMatchScore == -2

\* index.search(query_vec, k) for k >= 1: the rows of the k largest inner
\* products by descending score, rows numbered from 0, equal scores in any
\* order; when the index holds fewer than k rows, the rest is filled with -1
IndexSearch(ix, qv, k) ==
    LET n == NTotal(ix)
        m == Min(k, n)
        sc(row) == InnerProduct(qv, ix.vectors[row + 1])
        ranked == {r \in [1..m -> 0..(n - 1)] :
                     /\ \A a, b \in 1..m : a < b =>
                            r[a] # r[b] /\ sc(r[a]) >= sc(r[b])
                     /\ \A row \in 0..(n - 1) :
                            (\A a \in 1..m : r[a] # row) =>
                                \A a \in 1..m : sc(r[a]) >= sc(row)}
    IN  {[i \in 1..k |-> IF i <= m THEN [idx |-> r[i], score |-> sc(r[i])]
                         ELSE [idx |-> -1, score |-> NoMatchScore]] : r \in ranked}

\* lines 27-35 of search: the hits with a row id >= 0, each as its unit with
\* the score attached, in the order of the hits
RECURSIVE SearchResultsPrepended(_, _)
SearchResultsPrepended(hs, meta) ==
    IF hs = <<>> THEN <<>>
    ELSE IF Head(hs).idx < 0 THEN SearchResultsPrepended(Tail(hs), meta)
    ELSE SearchResultsPrepended(Tail(hs), meta)
         \o <<WithScore(meta[Head(hs).idx + 1], Head(hs).score)>>

RECURSIVE SearchResults(_, _)
SearchResults(hs, meta) ==
    IF hs = <<>> THEN <<>>
    ELSE IF Head(hs).idx < 0 THEN SearchResults(Tail(hs), meta)
    ELSE <<WithScore(meta[Head(hs).idx + 1], Head(hs).score)>>
         \o SearchResults(Tail(hs), meta)

\* line 21 of search: `if index is None or not metadata: return []`
SearchGuardIndexOnly(ix, meta) == ~ix.present

SearchGuard(ix, meta) == ~ix.present \/ meta = <<>>

\* metadata[idx] raises IndexError for a row id beyond the corpus
RowOutOfRange(hs, meta) == \E i \in 1..Len(hs) : hs[i].idx >= Len(meta)

\* The outcomes of search(query, ix, meta, model, k): the hits index.search
\* gave, the list returned, and whether an exception was raised instead.
\* index.search with k = 0 raises (assert k > 0) or returns no row, depending
\* on the faiss release.
SearchOutcomes(q, ix, meta, k) ==
    IF SearchGuard(ix, meta)
    THEN {[hits |-> <<>>, results |-> <<>>, raised |-> FALSE]}
    ELSE IF Min(k, NTotal(ix)) <= 0
    THEN {[hits |-> <<>>, results |-> <<>>, raised |-> r] : r \in BOOLEAN}
    ELSE {[hits |-> hs,
           results |-> IF RowOutOfRange(hs, meta) THEN <<>> ELSE SearchResults(hs, meta),
           raised |-> RowOutOfRange(hs, meta)] :
              hs \in IndexSearch(ix, Encode(q), Min(k, NTotal(ix)))}

(***************************************************************************)
(* discover_documents, ingest_all, build_index                             *)
(***************************************************************************)
CHUNK_MAX_TOKENS == 1000

CHUNK_OVERLAP_TOKENS == 100

\* A file of the documents directory: its name (numbered in the order of the
\* path strings), its extension, and whether the name starts with "~$".
File(name, ext, temp) == [name |-> name, ext |-> ext, temp |-> temp]

FileSlots ==
    {File(n, e, FALSE) : n \in 1..MaxFiles, e \in {"docx", "xlsx"}}
    \cup {File(1, "docx", TRUE)}

\* What a file holds: nothing (the file is absent), something the parser
\* raises on, or the items the parser reads: the sections parse_docx returns
\* for a .docx, the data rows of the sheet for a .xlsx.
Absent == [present |-> FALSE, ok |-> FALSE, items |-> <<>>]

Unreadable == [present |-> TRUE, ok |-> FALSE, items |-> <<>>]

Readable(items) == [present |-> TRUE, ok |-> TRUE, items |-> items]

SmallSection == [text |-> <<3>>, section |-> Introduction]

BigSection == [text |-> <<500, 400>>, section |-> <<"A">>]

Row(topic, question, words) == [topic |-> topic, question |-> question, words |-> words]

DocxContents == {Absent, Unreadable, Readable(<<>>), Readable(<<SmallSection, BigSection>>)}

XlsxContents ==
    {Absent, Unreadable, Readable(<<Row(<<"t">>, <<>>, 4)>>),
     Readable(<<Row(<<"t">>, <<>>, 4), Row(<<"t">>, <<"q">>, 6)>>)}

Directories ==
    {[exists |-> FALSE, files |-> [f \in FileSlots |-> Absent]]}
    \cup {[exists |-> TRUE, files |-> fs] :
            fs \in {g \in [FileSlots -> DocxContents \cup XlsxContents] :
                      \A f \in FileSlots :
                          /\ f.ext = "docx" => g[f] \in DocxContents
                          /\ f.ext = "xlsx" => g[f] \in XlsxContents
                          /\ f.temp => g[f] \in {Absent, Readable(<<SmallSection, BigSection>>)}}}

\* os.path.basename(fpath)
Basename(f) == f

\* sorted(...): the files of a set by ascending path
RECURSIVE SortedFiles(_)
SortedFiles(S) ==
    IF S = {} THEN <<>>
    ELSE LET f == CHOOSE x \in S : \A y \in S : x.name <= y.name
         IN  <<f>> \o SortedFiles(S \ {f})

\* docs_path.glob("*.<ext>") without the names starting with "~$", sorted
Discovered(dir, ext) ==
    IF ~dir.exists THEN <<>>
    ELSE SortedFiles({f \in FileSlots : dir.files[f].present /\ f.ext = ext /\ ~f.temp})

\* parse_docx(fpath), given the sections the document holds
ParseDocxFile(content, f) ==
    [i \in 1..Len(content.items) |->
        Unit(content.items[i].text, Basename(f), "sop", content.items[i].section,
             <<>>, <<>>, <<>>)]

\* parse_xlsx(fpath), given the data rows: one unit per row with a question;
\* the text "Topic: ..\nQ: ..\nA: .." is given by its word count
ParseXlsxFile(content, f) ==
    LET rows == SelectSeq(content.items, LAMBDA r : r.question # <<>>)
    IN  [i \in 1..Len(rows) |->
            Unit(<<rows[i].words>>, Basename(f), "faq",
                 <<"F", "A", "Q", " ", "-", " ">> \o rows[i].topic,
                 rows[i].topic, rows[i].question, <<>>)]

\* `for sec in sections: all_chunks.extend(_split_large_chunk(sec))`
RECURSIVE SplitAll(_)
SplitAll(secs) ==
    IF secs = <<>> THEN <<>>
    ELSE SplitLargeChunk(Head(secs), CHUNK_MAX_TOKENS, CHUNK_OVERLAP_TOKENS)
         \o SplitAll(Tail(secs))

\* lines 300-308: one iteration of `for fpath in docx_files` on
\* st = (all_chunks, all_filenames, aborted)
IngestDocxFileNoCatch(st, content, f) ==
    IF content.ok
    THEN [st EXCEPT !.all_chunks = @ \o SplitAll(ParseDocxFile(content, f)),
                    !.all_filenames = Append(@, Basename(f))]
    ELSE [st EXCEPT !.aborted = TRUE]

IngestDocxFile(st, content, f) ==
    IF content.ok
    THEN [st EXCEPT !.all_chunks = @ \o SplitAll(ParseDocxFile(content, f)),
                    !.all_filenames = Append(@, Basename(f))]
    ELSE st

\* lines 310-317: one iteration of `for fpath in xlsx_files`
IngestXlsxFileListsFailed(st, content, f) ==
    IF content.ok
    THEN [st EXCEPT !.all_chunks = @ \o ParseXlsxFile(content, f),
                    !.all_filenames = Append(@, Basename(f))]
    ELSE [st EXCEPT !.all_filenames = Append(@, Basename(f))]

IngestXlsxFile(st, content, f) ==
    IF content.ok
    THEN [st EXCEPT !.all_chunks = @ \o ParseXlsxFile(content, f),
                    !.all_filenames = Append(@, Basename(f))]
    ELSE st

IngestState == [all_chunks |-> all_chunks, all_filenames |-> all_filenames,
                aborted |-> ingest_pc = "aborted"]

SetIngestState(st, pc) ==
    /\ all_chunks' = st.all_chunks
    /\ all_filenames' = st.all_filenames
    /\ ingest_pc' = IF st.aborted THEN "aborted" ELSE pc

IngestInit ==
    /\ directory \in Directories
    /\ docx_files = <<>>
    /\ xlsx_files = <<>>
    /\ file_i = 0
    /\ all_chunks = <<>>
    /\ all_filenames = <<>>
    /\ ingest_pc = "discover"
    /\ index = NoneIndex
    /\ metadata = <<>>
    /\ doc_filenames = <<>>

\* lines 294-298: the files are discovered
Discover ==
    /\ ingest_pc = "discover"
    /\ docx_files' = Discovered(directory, "docx")
    /\ xlsx_files' = Discovered(directory, "xlsx")
    /\ file_i' = 1
    /\ ingest_pc' = "docx"
    /\ UNCHANGED <<directory, all_chunks, all_filenames>>
    /\ UNCHANGED <<splitVars, parseVars, formatVars, indexVars, searchVars, unitsVars>>

\* lines 300-308: the next .docx file is parsed and split, or skipped
IngestDocx ==
    /\ ingest_pc = "docx"
    /\ file_i <= Len(docx_files)
    /\ SetIngestState(IngestDocxFile(IngestState, directory.files[docx_files[file_i]],
                                     docx_files[file_i]), "docx")
    /\ file_i' = file_i + 1
    /\ UNCHANGED <<directory, docx_files, xlsx_files>>
    /\ UNCHANGED <<splitVars, parseVars, formatVars, indexVars, searchVars, unitsVars>>

\* line 310: the loop over the .xlsx files begins
IngestDocxDone ==
    /\ ingest_pc = "docx"
    /\ file_i > Len(docx_files)
    /\ file_i' = 1
    /\ ingest_pc' = "xlsx"
    /\ UNCHANGED <<directory, docx_files, xlsx_files, all_chunks, all_filenames>>
    /\ UNCHANGED <<splitVars, parseVars, formatVars, indexVars, searchVars, unitsVars>>

\* lines 310-317: the next .xlsx file is parsed, or skipped
IngestXlsx ==
    /\ ingest_pc = "xlsx"
    /\ file_i <= Len(xlsx_files)
    /\ SetIngestState(IngestXlsxFile(IngestState, directory.files[xlsx_files[file_i]],
                                     xlsx_files[file_i]), "xlsx")
    /\ file_i' = file_i + 1
    /\ UNCHANGED <<directory, docx_files, xlsx_files>>
    /\ UNCHANGED <<splitVars, parseVars, formatVars, indexVars, searchVars, unitsVars>>

\* lines 319-320: ingest_all returns (all_chunks, all_filenames)
IngestReturn ==
    /\ ingest_pc = "xlsx"
    /\ file_i > Len(xlsx_files)
    /\ ingest_pc' = "done"
    /\ UNCHANGED <<directory, docx_files, xlsx_files, file_i, all_chunks, all_filenames>>
    /\ UNCHANGED <<splitVars, parseVars, formatVars, indexVars, searchVars, unitsVars>>

\* app.build_index, lines 78-87: no index without chunks, else the chunks are
\* embedded into a new index
BuildIndex ==
    /\ ingest_pc = "done"
    /\ IF all_chunks = <<>>
       THEN index' = NoneIndex /\ metadata' = <<>>
       ELSE index' = BuildVectorStore(all_chunks) /\ metadata' = all_chunks
    /\ doc_filenames' = all_filenames
    /\ ingest_pc' = "built"
    /\ UNCHANGED <<directory, docx_files, xlsx_files, file_i, all_chunks, all_filenames>>
    /\ UNCHANGED <<splitVars, parseVars, formatVars, searchVars, unitsVars>>

IngestIdle ==
    /\ directory = [exists |-> FALSE, files |-> [f \in FileSlots |-> Absent]]
    /\ docx_files = <<>>
    /\ xlsx_files = <<>>
    /\ file_i = 0
    /\ all_chunks = <<>>
    /\ all_filenames = <<>>
    /\ ingest_pc = "idle"
    /\ index = NoneIndex
    /\ metadata = <<>>
    /\ doc_filenames = <<>>

(***************************************************************************)
(* search                                                                  *)
(***************************************************************************)
SearchUnits ==
    { Unit(<<3>>, File(1, "docx", FALSE), "sop", Introduction, <<>>, <<>>, <<>>),
      Unit(<<4>>, File(1, "docx", FALSE), "sop", <<"A">>, <<>>, <<>>, <<>>),
      Unit(<<5>>, File(1, "xlsx", FALSE), "faq", <<"F", "A", "Q", " ", "-", " ", "t">>,
           <<"t">>, <<"q">>, <<>>),
      Unit(<<3>>, File(2, "docx", FALSE), "sop", Introduction, <<>>, <<>>, <<>>) }

Queries == {<<3>>, <<2>>}

\* ingest_all has returned some corpus
CorpusInit ==
    /\ directory = [exists |-> TRUE, files |-> [f \in FileSlots |-> Absent]]
    /\ docx_files = <<>>
    /\ xlsx_files = <<>>
    /\ file_i = 1
    /\ all_chunks \in SeqsUpTo(SearchUnits, MaxCorpus)
    /\ all_filenames = <<>>
    /\ ingest_pc = "done"
    /\ index = NoneIndex
    /\ metadata = <<>>
    /\ doc_filenames = <<>>

SearchIdle ==
    /\ query = <<>>
    /\ top_k = 0
    /\ s_index = NoneIndex
    /\ s_metadata = <<>>
    /\ hits = <<>>
    /\ search_results = <<>>
    /\ raised = FALSE
    /\ search_pc = "ready"

\* The index and the corpus a caller hands to search: the pair build_index
\* returned, or either of them absent or empty.
SearchArguments ==
    {a \in [index : {NoneIndex, EmptyIndex, index}, metadata : {<<>>, metadata}] :
        \/ ~a.index.present
        \/ a.metadata = <<>>
        \/ NTotal(a.index) = Len(a.metadata)}

\* lines 13-35: search(query, index, metadata, model, top_k)
Search ==
    /\ ingest_pc = "built"
    /\ search_pc = "ready"
    /\ \E q \in Queries, k \in 0..MaxTopK, a \in SearchArguments :
          \E o \in SearchOutcomes(q, a.index, a.metadata, k) :
              /\ query' = q
              /\ top_k' = k
              /\ s_index' = a.index
              /\ s_metadata' = a.metadata
              /\ hits' = o.hits
              /\ search_results' = o.results
              /\ raised' = o.raised
    /\ search_pc' = "done"
    /\ UNCHANGED <<splitVars, parseVars, formatVars, ingestVars, indexVars, unitsVars>>

(***************************************************************************)
(* From documents to retrieval units: parse_docx, _split_large_chunk and   *)
(* parse_xlsx on character-level documents, in the order of ingest_all     *)
(***************************************************************************)
SentenceEnd == {".", "!", "?"}

\* the end of the whitespace run that starts at position i
RECURSIVE SkipSpace(_, _)
SkipSpace(text, i) ==
    IF i <= Len(text) /\ IsSpace(text[i]) THEN SkipSpace(text, i + 1) ELSE i

\* re.split(r"(?<=[.!?])\s+", text) on a text of characters: the text is cut
\* at every whitespace run that follows ".", "!" or "?"; cur is the piece
\* being read
RECURSIVE ReSplitFrom(_, _, _)
ReSplitFrom(text, i, cur) ==
    IF i > Len(text) THEN <<cur>>
    ELSE IF i > 1 /\ IsSpace(text[i]) /\ text[i - 1] \in SentenceEnd
    THEN <<cur>> \o ReSplitFrom(text, SkipSpace(text, i), <<>>)
    ELSE ReSplitFrom(text, i + 1, Append(cur, text[i]))

\* a text of characters as the splitter reads it: the word counts
\* len(sent.split()) of the pieces of re.split
SentenceWords(text) ==
    LET pieces == ReSplitFrom(text, 1, <<>>)
    IN  [k \in 1..Len(pieces) |-> WordsIn(pieces[k])]

\* a section of parse_docx as the chunk handed to _split_large_chunk
AsChunk(sec) == [sec EXCEPT !.text = SentenceWords(sec.text)]

\* `for sec in sections: all_chunks.extend(_split_large_chunk(sec, ...))`
RECURSIVE SplitEach(_, _, _)
SplitEach(secs, maxTok, overlap) ==
    IF secs = <<>> THEN <<>>
    ELSE SplitLargeChunk(AsChunk(Head(secs)), maxTok, overlap)
         \o SplitEach(Tail(secs), maxTok, overlap)

XlsxName == <<"f", ".", "x", "l", "s", "x">>

\* A data row of the sheet by the columns col_map finds; a cell is its
\* str(value or ""), so an empty cell (None) is the empty text.
XlsxRow(topic, location, question, answer, resource) ==
    [topic |-> topic, location |-> location, question |-> question,
     answer |-> answer, resource |-> resource]

\* one iteration of `for row in ws.iter_rows(min_row=2, ...)`: the units the
\* row adds to chunks
ParseXlsxRowKeepsBlank(row, filename) ==
    <<[text |-> <<"Q", ":", " ">> \o Strip(row.question) \o <<"\n">>
                \o <<"A", ":", " ">> \o Strip(row.answer),
       source |-> filename, type |-> "faq",
       topic |-> Strip(row.topic), location |-> Strip(row.location),
       question |-> Strip(row.question), resource_link |-> Strip(row.resource),
       section |-> <<"F", "A", "Q", " ", "-", " ">> \o Strip(row.topic)]>>

ParseXlsxRow(row, filename) ==
    LET question == Strip(row.question)
        answer == Strip(row.answer)
        topic == Strip(row.topic)
        location == Strip(row.location)
        resource == Strip(row.resource)
        parts == (IF topic # <<>>
                  THEN <<<<"T", "o", "p", "i", "c", ":", " ">> \o topic>> ELSE <<>>)
                 \o (IF location # <<>>
                     THEN <<<<"L", "o", "c", "a", "t", "i", "o", "n", ":", " ">>
                            \o location>>
                     ELSE <<>>)
                 \o <<<<"Q", ":", " ">> \o question>>
                 \o <<<<"A", ":", " ">> \o answer>>
    IN  IF question = <<>> THEN <<>>
        ELSE <<[text |-> Join(parts, <<"\n">>),
                source |-> filename, type |-> "faq",
                topic |-> topic, location |-> location,
                question |-> question, resource_link |-> resource,
                \* "FAQ <dash> <topic>"
                section |-> <<"F", "A", "Q", " ", "-", " ">> \o topic]>>

\* parse_xlsx(filepath) on a sheet with the given data rows
RECURSIVE ParseXlsx(_, _)
ParseXlsx(rows, filename) ==
    IF rows = <<>> THEN <<>>
    ELSE ParseXlsxRow(Head(rows), filename) \o ParseXlsx(Tail(rows), filename)

\* the documents of the pipeline: paragraphs with several sentences, a
\* heading, blank and filled tables; rows with and without a question
UnitsBodyElements ==
    { Para(<<" ">>, FALSE, FALSE),
      Para(<<"a", ".", " ", "b", "!", "\n", "c", "?", " ", " ", "d">>, FALSE, FALSE),
      Para(<<"A">>, TRUE, FALSE),
      Table(<<<<<<>>>>>>),
      Table(<<<<<<"a">>>>>>) }

UnitsRows ==
    { XlsxRow(<<"t">>, <<>>, <<" ", "q">>, <<"a">>, <<>>),
      XlsxRow(<<>>, <<"l">>, <<" ">>, <<"a">>, <<>>),
      XlsxRow(<<>>, <<>>, <<>>, <<>>, <<>>) }

UnitsInit ==
    /\ u_body \in SeqsUpTo(UnitsBodyElements, MaxUnitsBody)
    /\ u_rows \in SeqsUpTo(UnitsRows, MaxUnitsRows)
    /\ u_max_tokens \in {SmallMaxTokens, CHUNK_MAX_TOKENS}
    /\ u_overlap_tokens \in {SmallOverlapTokens, CHUNK_OVERLAP_TOKENS}
    /\ u_sections = <<>>
    /\ u_sub_chunks = <<>>
    /\ u_faq = <<>>
    /\ u_pc = "docx"

UnitsIdle ==
    /\ u_body = <<>>
    /\ u_rows = <<>>
    /\ u_max_tokens = 0
    /\ u_overlap_tokens = 0
    /\ u_sections = <<>>
    /\ u_sub_chunks = <<>>
    /\ u_faq = <<>>
    /\ u_pc = "idle"

\* ingest.py line 303: sections = parse_docx(fpath)
UnitsParseDocx ==
    /\ u_pc = "docx"
    /\ u_sections' = ParseDocx(u_body, DocxName)
    /\ u_pc' = "split"
    /\ UNCHANGED <<u_body, u_rows, u_max_tokens, u_overlap_tokens, u_sub_chunks, u_faq>>
    /\ UNCHANGED <<splitVars, parseVars, formatVars, ingestVars, indexVars, searchVars>>

\* ingest.py lines 304-305: every section goes through _split_large_chunk
UnitsSplit ==
    /\ u_pc = "split"
    /\ u_sub_chunks' = SplitEach(u_sections, u_max_tokens, u_overlap_tokens)
    /\ u_pc' = "xlsx"
    /\ UNCHANGED <<u_body, u_rows, u_max_tokens, u_overlap_tokens, u_sections, u_faq>>
    /\ UNCHANGED <<splitVars, parseVars, formatVars, ingestVars, indexVars, searchVars>>

\* ingest.py line 313: faq_chunks = parse_xlsx(fpath)
UnitsParseXlsx ==
    /\ u_pc = "xlsx"
    /\ u_faq' = ParseXlsx(u_rows, XlsxName)
    /\ u_pc' = "done"
    /\ UNCHANGED <<u_body, u_rows, u_max_tokens, u_overlap_tokens, u_sections,
                   u_sub_chunks>>
    /\ UNCHANGED <<splitVars, parseVars, formatVars, ingestVars, indexVars, searchVars>>

(***************************************************************************)
(* Specifications                                                          *)
(***************************************************************************)
SplitNext == SplitReturnUnchanged \/ SplitEnter \/ SplitIterate \/ SplitFinish

InitSplit == SplitInit /\ ParseIdle /\ FormatIdle /\ IngestIdle /\ SearchIdle /\ UnitsIdle

SpecSplit == InitSplit /\ [][SplitNext]_vars

InitParse == ParseInit /\ SplitIdle /\ FormatIdle /\ IngestIdle /\ SearchIdle /\ UnitsIdle

SpecParse == InitParse /\ [][ParseNext]_vars

InitFormat == FormatInit /\ SplitIdle /\ ParseIdle /\ IngestIdle /\ SearchIdle /\ UnitsIdle

SpecFormat == InitFormat /\ [][FormatNext]_vars

SearchNext == BuildIndex \/ Search

InitSearch == CorpusInit /\ SearchIdle /\ SplitIdle /\ ParseIdle /\ FormatIdle /\ UnitsIdle

SpecSearch == InitSearch /\ [][SearchNext]_vars

Next == Discover \/ IngestDocx \/ IngestDocxDone \/ IngestXlsx \/ IngestReturn \/ BuildIndex

Init == IngestInit /\ SearchIdle /\ SplitIdle /\ ParseIdle /\ FormatIdle /\ UnitsIdle

Spec == Init /\ [][Next]_vars

UnitsNext == UnitsParseDocx \/ UnitsSplit \/ UnitsParseXlsx

InitUnits == UnitsInit /\ SplitIdle /\ ParseIdle /\ FormatIdle /\ IngestIdle /\ SearchIdle

SpecUnits == InitUnits /\ [][UnitsNext]_vars

(***************************************************************************)
(* Claims about _split_large_chunk (checked under SpecSplit)               *)
(***************************************************************************)
SplitDone == split_pc = "done"

Oversized == ApproxTokenCount(WordCount(chunk.text)) > max_tokens

\* the sentences of sub-chunk k that were carried over from sub-chunk k-1:
\* those at input positions up to the last position of sub-chunk k-1
Carried(k) ==
    LET prev == emitted[k - 1]
        last == prev[Len(prev)].pos
    IN  SelectSeq(emitted[k], LAMBDA s : s.pos <= last)

IsSuffix(a, b) ==
    /\ Len(a) <= Len(b)
    /\ a = SubSeq(b, Len(b) - Len(a) + 1, Len(b))

IsPrefix(a, b) ==
    /\ Len(a) <= Len(b)
    /\ a = SubSeq(b, 1, Len(a))

\* C2 (as stated): every section whose estimated token count exceeds
\* max_tokens comes back as at least two sub-chunks.
C2_AtLeastTwoSubChunks ==
    (SplitDone /\ Oversized) => Len(sub_chunks) >= 2

\* C2 (amended): an oversized section comes back as at least one sub-chunk,
\* and as two or more exactly when its text has at least two sentences whose
\* estimated token counts, each rounded down on its own, sum to more than
\* max_tokens.
C2_TwoSubChunksIffSentencesExceed ==
    (SplitDone /\ Oversized) =>
        /\ Len(sub_chunks) >= 1
        /\ (Len(sub_chunks) >= 2) <=>
               (Len(chunk.text) >= 2 /\ SentTokens(ReSplit(chunk.text)) > max_tokens)

\* C2 witness: an oversized section of several sentences was split in two or
\* more sub-chunks
C2_Witness ==
    /\ SplitDone
    /\ Oversized
    /\ Len(chunk.text) >= 3
    /\ Len(sub_chunks) >= 2

\* C3 (as stated): for an oversized section, the estimated token count of
\* each returned sub-chunk's own text is at most max_tokens plus the estimated
\* token count of one sentence of the input.
C3_SubChunkWithinBudget ==
    (SplitDone /\ Oversized) =>
        \A k \in 1..Len(sub_chunks) :
            \E i \in 1..Len(chunk.text) :
                ApproxTokenCount(WordCount(sub_chunks[k].text))
                    <= max_tokens + ApproxTokenCount(chunk.text[i])

\* C3 (amended): for an oversized section, the estimated token counts of the
\* sentences of each sub-chunk, each rounded down on its own and without the
\* section-heading prefix, sum to at most max_tokens (or overlap_tokens, if
\* that is larger) plus the estimated token count of the sub-chunk's last
\* sentence.
C3_SentenceSumWithinBudget ==
    (SplitDone /\ Oversized) =>
        /\ Len(emitted) = Len(sub_chunks)
        /\ \A k \in 1..Len(emitted) :
               /\ sub_chunks[k].text = SubText(chunk, emitted[k])
               /\ SentTokens(emitted[k])
                      <= Max(max_tokens, overlap_tokens)
                         + ApproxTokenCount(emitted[k][Len(emitted[k])].words)

\* C3 witness: a sub-chunk of several sentences whose sentence estimates sum
\* to more than max_tokens
C3_Witness ==
    /\ SplitDone
    /\ Oversized
    /\ \E k \in 1..Len(emitted) :
           /\ Len(emitted[k]) >= 2
           /\ SentTokens(emitted[k]) > max_tokens

\* C4 (as stated): every sub-chunk after the first begins with one or more
\* sentences taken from the end of the preceding sub-chunk, whose estimated
\* tokens sum to at most overlap_tokens.
C4_OverlapNonEmpty ==
    \A k \in 2..Len(emitted) :
        /\ Len(Carried(k)) >= 1
        /\ IsPrefix(Carried(k), emitted[k])
        /\ IsSuffix(Carried(k), emitted[k - 1])
        /\ SentTokens(Carried(k)) <= overlap_tokens

\* C4 (amended): every sub-chunk after the first begins with zero or more
\* sentences that are the last sentences of the preceding sub-chunk, in the
\* same order, whose estimated tokens sum to at most overlap_tokens; there is
\* at least one exactly when the last sentence of the preceding sub-chunk is
\* itself estimated at no more than overlap_tokens.
C4_OverlapWithinBudget ==
    \A k \in 2..Len(emitted) :
        LET prev == emitted[k - 1]
        IN  /\ IsPrefix(Carried(k), emitted[k])
            /\ IsSuffix(Carried(k), prev)
            /\ SentTokens(Carried(k)) <= overlap_tokens
            /\ (Len(Carried(k)) >= 1) <=>
                   (ApproxTokenCount(prev[Len(prev)].words) <= overlap_tokens)

\* C4 witness: a finished split whose second sub-chunk starts with a sentence
\* carried over from the first
C4_Witness ==
    /\ SplitDone
    /\ Len(emitted) >= 2
    /\ Len(Carried(2)) >= 1
    /\ Len(emitted[2]) > Len(Carried(2))

(***************************************************************************)
(* Claims about parse_docx (checked under SpecParse)                       *)
(***************************************************************************)
ParseDone == parse_pc = "done"

NoHeadings ==
    \A i \in 1..Len(body) : ~(body[i].kind = "p" /\ IsSectionHeading(body[i]))

\* the text an element contributes to the body: a paragraph's trimmed text,
\* a table's rows; <<>> for elements that contribute nothing
ElementText(e) ==
    IF e.kind = "p" THEN Strip(e.text)
    ELSE IF e.kind = "tbl" /\ Strip(ExtractTableText(e)) # <<>> THEN ExtractTableText(e)
    ELSE <<>>

\* the non-empty paragraphs and tables of the body, in document order
BodyContent ==
    LET texts == [i \in 1..Len(body) |-> ElementText(body[i])]
    IN  SelectSeq(texts, LAMBDA t : t # <<>>)

IntroductionSection ==
    [text |-> Strip(Join(BodyContent, <<"\n">>)), section |-> Introduction,
     source |-> DocxName, type |-> "sop"]

\* C5 (as stated): a document without headings yields exactly one section,
\* labeled "Introduction", holding the non-empty paragraphs and tables of the
\* body in document order.
C5_OneIntroductionSection ==
    (ParseDone /\ NoHeadings) => sections = <<IntroductionSection>>

\* C5 (amended): a document without headings yields exactly one section,
\* labeled "Introduction", holding the non-empty paragraphs and tables of the
\* body in document order, when the body has at least one non-empty paragraph
\* or table; it yields no section when the body has none.
C5_IntroductionUnlessEmpty ==
    (ParseDone /\ NoHeadings) =>
        sections = IF BodyContent = <<>> THEN <<>> ELSE <<IntroductionSection>>

\* C5 witness: a parsed document without headings whose single section holds
\* a paragraph and a table
C5_Witness ==
    /\ ParseDone
    /\ NoHeadings
    /\ Len(BodyContent) >= 2
    /\ \E i, j \in 1..Len(body) :
           /\ body[i].kind = "p" /\ ElementText(body[i]) # <<>>
           /\ body[j].kind = "tbl" /\ ElementText(body[j]) # <<>>
    /\ Len(sections) = 1

(***************************************************************************)
(* Claims about format_sources_for_display (checked under SpecFormat)      *)
(***************************************************************************)
FormatDone == fmt_pc = "done"

\* the deduplication key of the specification
DedupKey(r) ==
    IF r.type = "faq" THEN <<r.type, r.question>>
    ELSE <<r.type, r.source, r.section>>

\* the results that are the first to carry their key, in input order
RECURSIVE FirstOccurrences(_, _)
FirstOccurrences(rs, keys) ==
    IF rs = <<>> THEN <<>>
    ELSE IF DedupKey(Head(rs)) \in keys THEN FirstOccurrences(Tail(rs), keys)
    ELSE <<Head(rs)>> \o FirstOccurrences(Tail(rs), keys \cup {DedupKey(Head(rs))})

RECURSIVE LinesOf(_)
LinesOf(rs) == IF rs = <<>> THEN <<>> ELSE SourceLines(Head(rs)) \o LinesOf(Tail(rs))

\* C6 (as stated): the rendered entries are exactly those of the first result
\* of each distinct key ((kind, question) or (kind, source, section)), in
\* input order: later results with a seen key are dropped, none other is.
C6_OneEntryPerKey ==
    (FormatDone /\ results # <<>>) => lines = LinesOf(FirstOccurrences(results, {}))

(***************************************************************************)
(* Claims about build_vector_store and search (checked under SpecSearch)   *)
(***************************************************************************)
SearchReturned == search_pc = "done" /\ ~raised

\* the hits of index.search that name a row
RowHits == SelectSeq(hits, LAMBDA h : h.idx >= 0)

\* C1: row i of the index built from a corpus holds the embedding of the text
\* of corpus[i], and every result search returns for row i is corpus[i] with
\* only a score added, the score being that of its own text against the query.
C1_RowCorrespondence ==
    /\ (ingest_pc = "built" /\ index.present) =>
           /\ NTotal(index) = Len(metadata)
           /\ \A i \in 1..Len(metadata) : index.vectors[i] = Encode(metadata[i].text)
    /\ SearchReturned =>
           /\ Len(search_results) = Len(RowHits)
           /\ \A j \in 1..Len(search_results) :
                  LET r == search_results[j]
                      u == s_metadata[RowHits[j].idx + 1]
                  IN  /\ DOMAIN r = DOMAIN u \cup {"score"}
                      /\ \A fld \in DOMAIN u : r[fld] = u[fld]
                      /\ r.score = RowHits[j].score
                      /\ r.score = InnerProduct(Encode(query), Encode(u.text))

\* C1 witness: a search over a built index returned two units of different
\* texts
C1_Witness ==
    /\ SearchReturned
    /\ s_index = index /\ index.present
    /\ Len(search_results) >= 2
    /\ search_results[1].text # search_results[2].text
    /\ search_results[1].score # search_results[2].score

\* C7: on a non-empty index of N rows paired with its corpus, search returns
\* at most min(top_k, N) results, by descending score, none of them for a
\* negative row id.
C7_TopKDescending ==
    (SearchReturned /\ s_index.present /\ NTotal(s_index) > 0 /\ s_metadata # <<>>) =>
        /\ Len(search_results) <= Min(top_k, NTotal(s_index))
        /\ \A a, b \in 1..Len(search_results) :
               a < b => search_results[a].score >= search_results[b].score
        /\ Len(search_results) = Len(RowHits)
        /\ \A j \in 1..Len(search_results) : search_results[j].score # NoMatchScore

\* C7 witness: top_k exceeds the index size and all the rows come back, by
\* strictly descending score
C7_Witness ==
    /\ SearchReturned
    /\ s_index.present /\ s_metadata # <<>>
    /\ top_k > NTotal(s_index)
    /\ Len(search_results) = NTotal(s_index)
    /\ Len(search_results) >= 2
    /\ search_results[1].score > search_results[2].score

IngestReturned == ingest_pc \in {"done", "built"}

\* the files of an extension that discovery finds and the parser reads
Parsed(f) == directory.exists /\ ~f.temp /\ directory.files[f].ok

\* the units of the parsed files of names n..MaxFiles, by ascending name
RECURSIVE DocxUnitsFrom(_)
DocxUnitsFrom(n) ==
    IF n > MaxFiles THEN <<>>
    ELSE LET f == File(n, "docx", FALSE)
         IN  (IF Parsed(f) THEN SplitAll(ParseDocxFile(directory.files[f], f)) ELSE <<>>)
             \o DocxUnitsFrom(n + 1)

RECURSIVE XlsxUnitsFrom(_)
XlsxUnitsFrom(n) ==
    IF n > MaxFiles THEN <<>>
    ELSE LET f == File(n, "xlsx", FALSE)
         IN  (IF Parsed(f) THEN ParseXlsxFile(directory.files[f], f) ELSE <<>>)
             \o XlsxUnitsFrom(n + 1)

RECURSIVE ParsedNamesFrom(_, _)
ParsedNamesFrom(n, ext) ==
    IF n > MaxFiles THEN <<>>
    ELSE (IF Parsed(File(n, ext, FALSE)) THEN <<Basename(File(n, ext, FALSE))>> ELSE <<>>)
         \o ParsedNamesFrom(n + 1, ext)

SeqRange(q) == {q[i] : i \in 1..Len(q)}

\* C9: a parse failure on a file does not abort ingestion: no exception
\* escapes, and the corpus returned holds the units of every file that parsed,
\* the structured documents by ascending path first, then the tabular sources.
C9_FailureIsSkipped ==
    /\ ingest_pc # "aborted"
    /\ IngestReturned => all_chunks = DocxUnitsFrom(1) \o XlsxUnitsFrom(1)

\* C9 witness: ingestion returned units of a document and of a tabular source
\* that come after a document that failed to parse
C9_Witness ==
    /\ IngestReturned
    /\ directory.files[File(1, "docx", FALSE)] = Unreadable
    /\ Parsed(File(2, "docx", FALSE))
    /\ \E i, j \in 1..Len(all_chunks) :
           /\ i < j
           /\ all_chunks[i].source = Basename(File(2, "docx", FALSE))
           /\ all_chunks[j].type = "faq"

UnitsDone == u_pc = "done"

\* the rows of the sheet whose question is not empty after trimming
RowsWithQuestion == SelectSeq(u_rows, LAMBDA r : Strip(r.question) # <<>>)

\* C11: every retrieval unit has non-empty text: the sections parse_docx
\* returns, the sub-chunks (or unchanged sections) _split_large_chunk returns
\* for them, which hold at least one word, and the units of parse_xlsx, of
\* which there is exactly one per row with a question that is not empty after
\* trimming, in row order, and none for the other rows.
C11_UnitTextNonEmpty ==
    /\ \A i \in 1..Len(u_sections) : u_sections[i].text # <<>>
    /\ \A i \in 1..Len(u_sub_chunks) :
           /\ u_sub_chunks[i].text # <<>>
           /\ WordCount(u_sub_chunks[i].text) > 0
    /\ \A i \in 1..Len(u_faq) : u_faq[i].text # <<>> /\ u_faq[i].question # <<>>
    /\ UnitsDone =>
           /\ Len(u_faq) = Len(RowsWithQuestion)
           /\ \A i \in 1..Len(u_faq) : u_faq[i].question = Strip(RowsWithQuestion[i].question)

\* a document with a blank element and a section that is split, and a sheet
\* with a row that is skipped and a row that gives a unit
C11_Witness ==
    /\ UnitsDone
    /\ \E i \in 1..Len(u_body) : Strip(ElementText(u_body[i])) = <<>>
    /\ Len(u_sub_chunks) > Len(u_sections)
    /\ Len(u_faq) >= 1
    /\ Len(u_faq) < Len(u_rows)

(***************************************************************************)
(* Claims about the sections of parse_docx (checked under SpecParse)       *)
(***************************************************************************)
IsHeadingAt(i) == body[i].kind = "p" /\ IsSectionHeading(body[i])

\* the positions of the heading paragraphs of the body, ascending
HeadingPositions == SelectSeq([i \in 1..Len(body) |-> i], LAMBDA i : IsHeadingAt(i))

\* the non-empty content of the elements at positions from..to: trimmed
\* paragraph texts and rendered tables that are not empty after trimming
ContentBetween(from, to) ==
    LET texts == [i \in 1..Max(to - from + 1, 0) |-> ElementText(body[from + i - 1])]
    IN  SelectSeq(texts, LAMBDA t : t # <<>>)

\* the position after the content of the k-th heading: the next heading, or
\* the end of the body (k = 0: the content before the first heading)
NextHeading(k) ==
    IF k < Len(HeadingPositions) THEN HeadingPositions[k + 1] ELSE Len(body) + 1

HeadingLabel(k) == Strip(body[HeadingPositions[k]].text)

HeadingMarker(k) == <<"#", "#", " ">> \o HeadingLabel(k)

\* the section of the k-th heading: its marker, then the content up to the
\* next heading, one per line
HeadingSection(k) ==
    [text |-> Strip(Join(<<HeadingMarker(k)>>
                         \o ContentBetween(HeadingPositions[k] + 1, NextHeading(k) - 1),
                         <<"\n">>)),
     section |-> HeadingLabel(k), source |-> DocxName, type |-> "sop"]

LeadingContent == ContentBetween(1, NextHeading(0) - 1)

LeadingSection ==
    [text |-> Strip(Join(LeadingContent, <<"\n">>)), section |-> Introduction,
     source |-> DocxName, type |-> "sop"]

\* C12: parse_docx returns, in document order, one section per heading
\* paragraph, labeled with the (trimmed) heading text, whose text starts with
\* the marker "## <heading>" and continues with the content up to the next
\* heading; these are preceded by one "Introduction" section holding the
\* content before the first heading if and only if that content is not empty.
C12_SectionPerHeading ==
    ParseDone =>
        /\ sections = (IF LeadingContent # <<>> THEN <<LeadingSection>> ELSE <<>>)
                      \o [k \in 1..Len(HeadingPositions) |-> HeadingSection(k)]
        /\ \A k \in 1..Len(HeadingPositions) :
               LET sec == sections[Len(sections) - Len(HeadingPositions) + k]
               IN  /\ sec.section = HeadingLabel(k)
                   /\ IsPrefix(HeadingMarker(k), sec.text)

\* a parsed document with an Introduction, and one with two headings of
\* different labels and content between them, are both reached; the witness
\* is the latter
C12_Witness ==
    /\ ParseDone
    /\ Len(HeadingPositions) = 2
    /\ HeadingLabel(1) # HeadingLabel(2)
    /\ ContentBetween(HeadingPositions[1] + 1, HeadingPositions[2] - 1) # <<>>
    /\ Len(sections) = 2
    /\ sections[1].section = HeadingLabel(1)
    /\ sections[2].section = HeadingLabel(2)

(***************************************************************************)
(* Claims about the sentences of the sub-chunks (checked under SpecSplit)  *)
(***************************************************************************)
\* the sentences of sub-chunk k that were not carried over from sub-chunk k-1
Fresh(k) ==
    IF k = 1 THEN emitted[1]
    ELSE LET prev == emitted[k - 1]
             last == prev[Len(prev)].pos
         IN  SelectSeq(emitted[k], LAMBDA s : s.pos > last)

\* the sub-chunks 1..k without their carried-over sentences, one after another
RECURSIVE FreshUpTo(_)
FreshUpTo(k) == IF k = 0 THEN <<>> ELSE FreshUpTo(k - 1) \o Fresh(k)

\* C13: when a section is split, the loop has read every sentence exactly once
\* when the function returns (and never reads past the last one); every
\* sub-chunk's text is the prefix and its sentences; every input sentence is
\* in at least one sub-chunk; the sentences of each sub-chunk follow each
\* other as in the input; and the sub-chunks without their carried-over
\* sentences, one after another, are the input's sentences exactly.
C13_NoSentenceLostOrReordered ==
    /\ split_pc = "loop" =>
           /\ sentences = ReSplit(chunk.text)
           /\ sent_i \in 1..(Len(sentences) + 1)
    /\ (SplitDone /\ Oversized) =>
           /\ sentences = ReSplit(chunk.text)
           /\ sent_i = Len(sentences) + 1
           /\ Len(emitted) = Len(sub_chunks)
           /\ \A k \in 1..Len(emitted) :
                  /\ emitted[k] # <<>>
                  /\ sub_chunks[k].text = SubText(chunk, emitted[k])
                  /\ \A j \in 1..Len(emitted[k]) :
                         emitted[k][j] = sentences[emitted[k][j].pos]
                  /\ \A j \in 1..(Len(emitted[k]) - 1) :
                         emitted[k][j + 1].pos = emitted[k][j].pos + 1
           /\ \A i \in 1..Len(sentences) :
                  \E k \in 1..Len(emitted) :
                      \E j \in 1..Len(emitted[k]) : emitted[k][j] = sentences[i]
           /\ FreshUpTo(Len(emitted)) = sentences

\* a finished split into three sub-chunks where two sentences were carried
\* over into the second
C13_Witness ==
    /\ SplitDone
    /\ Oversized
    /\ Len(emitted) >= 3
    /\ Len(Carried(2)) >= 2
    /\ Len(Fresh(2)) >= 1

====
